---------------------------- MODULE Spec2Model ----------------------------
(***************************************************************************)
(* ECIES of ch5-asymmetric-and-hybrid-encryption/ecies.js:                 *)
(* AliceEncrypt (ECDH, SHA-256 with a random salt, AES-256-GCM) and        *)
(* BobDecrypt.                                                             *)
(*                                                                         *)
(* Buffers are sequences of bytes 0..255, JavaScript strings are sequences *)
(* of UTF-16 code units.  The library primitives are modelled as follows:  *)
(*  - crypto.diffieHellman is exponentiation in the subgroup of order 11   *)
(*    of Z_23^* (so agreement is computed, and its symmetry is a fact of   *)
(*    the arithmetic, not an axiom);                                       *)
(*  - SHA-256 is collision-free: a digest is identified by its preimage;   *)
(*  - AES-256-GCM encrypts by XOR with a keystream that is a function of   *)
(*    (key, iv, position); its tag is a function of (key, iv, ciphertext)  *)
(*    and it is unforgeable: decipher.final() accepts only a (key, iv,     *)
(*    ciphertext) that some cipher operation produced, with a tag that is  *)
(*    the produced tag cut to a length GCM permits;                        *)
(*  - crypto.randomBytes never returns a value it returned before.         *)
(***************************************************************************)
EXTENDS Integers, Sequences, FiniteSets, TLC

\* ------------------------------------------------------------------ bounds
NumParties == 3      \* x25519 key pairs: 1 Alice, 2 Bob, 3 a third party
MaxMsgLen == 2       \* longest enumerated ASCII message, in code units
NumSalts == 2        \* 16-byte values the random source can return
NumIvs == 2          \* 12-byte values the random source can return
NumCalls == 2        \* AliceEncrypt calls that can be in flight at once

\* ------------------------------------------------------------------ buffers
Min(a, b) == IF a < b THEN a ELSE b

\* Buffer.concat([a, b])
Concat(a, b) == a \o b

\* buf.slice(start, end): offsets are clamped to the buffer's length.
Slice(buf, start, end) ==
    IF start >= Min(end, Len(buf)) THEN <<>>
    ELSE SubSeq(buf, start + 1, Min(end, Len(buf)))

\* buf.slice(start)
SliceFrom(buf, start) == Slice(buf, start, Len(buf))

RECURSIVE SumSeq(_)
SumSeq(s) == IF s = <<>> THEN 0 ELSE (Head(s) + SumSeq(Tail(s))) % 256

RECURSIVE Xor(_, _)
Xor(a, b) ==
    IF a = 0 THEN b
    ELSE IF b = 0 THEN a
    ELSE (((a % 2) + (b % 2)) % 2) + 2 * Xor(a \div 2, b \div 2)

RECURSIVE Pow2(_)
Pow2(n) == IF n = 0 THEN 1 ELSE 2 * Pow2(n - 1)

\* The buffer with bit k (0 = lowest bit of byte 0) inverted.
FlipBit(buf, k) ==
    [i \in 1..Len(buf) |->
        IF i = (k \div 8) + 1 THEN Xor(buf[i], Pow2(k % 8)) ELSE buf[i]]

\* ------------------------------------------------------------ UTF-8 codec
IsHighSurrogate(u) == u >= 55296 /\ u <= 56319
IsLowSurrogate(u) == u >= 56320 /\ u <= 57343
IsSurrogate(u) == u >= 55296 /\ u <= 57343

\* cipher.update(plaintext, 'utf8'): the string's UTF-8 bytes; an unpaired
\* surrogate is encoded as U+FFFD (EF BF BD).
RECURSIVE Utf8EncodeFrom(_, _)
Utf8EncodeFrom(s, i) ==
    IF i > Len(s) THEN <<>>
    ELSE LET u == s[i] IN
      IF u < 128 THEN <<u>> \o Utf8EncodeFrom(s, i + 1)
      ELSE IF u < 2048
      THEN <<192 + (u \div 64), 128 + (u % 64)>> \o Utf8EncodeFrom(s, i + 1)
      ELSE IF IsHighSurrogate(u) /\ i < Len(s) /\ IsLowSurrogate(s[i + 1])
      THEN LET cp == 65536 + (u - 55296) * 1024 + (s[i + 1] - 56320)
           IN <<240 + (cp \div 262144), 128 + ((cp \div 4096) % 64),
                128 + ((cp \div 64) % 64), 128 + (cp % 64)>>
              \o Utf8EncodeFrom(s, i + 2)
      ELSE IF IsSurrogate(u)
      THEN <<239, 191, 189>> \o Utf8EncodeFrom(s, i + 1)
      ELSE <<224 + (u \div 4096), 128 + ((u \div 64) % 64), 128 + (u % 64)>>
           \o Utf8EncodeFrom(s, i + 1)

Utf8Encode(s) == Utf8EncodeFrom(s, 1)

IsCont(b, i) == i <= Len(b) /\ b[i] >= 128 /\ b[i] <= 191

\* decrypted.toString('utf8'): an invalid byte decodes to U+FFFD (65533), a code
\* point above U+FFFF to a surrogate pair.
RECURSIVE Utf8DecodeFrom(_, _)
Utf8DecodeFrom(b, i) ==
    IF i > Len(b) THEN <<>>
    ELSE LET b0 == b[i] IN
      IF b0 < 128 THEN <<b0>> \o Utf8DecodeFrom(b, i + 1)
      ELSE IF b0 >= 194 /\ b0 <= 223 /\ IsCont(b, i + 1)
      THEN <<(b0 - 192) * 64 + (b[i + 1] - 128)>> \o Utf8DecodeFrom(b, i + 2)
      ELSE IF b0 >= 224 /\ b0 <= 239 /\ IsCont(b, i + 1) /\ IsCont(b, i + 2)
      THEN LET cp == (b0 - 224) * 4096 + (b[i + 1] - 128) * 64 + (b[i + 2] - 128)
           IN IF cp < 2048 \/ IsSurrogate(cp)
              THEN <<65533>> \o Utf8DecodeFrom(b, i + 1)
              ELSE <<cp>> \o Utf8DecodeFrom(b, i + 3)
      ELSE IF b0 >= 240 /\ b0 <= 244 /\ IsCont(b, i + 1) /\ IsCont(b, i + 2)
              /\ IsCont(b, i + 3)
      THEN LET cp == (b0 - 240) * 262144 + (b[i + 1] - 128) * 4096
                     + (b[i + 2] - 128) * 64 + (b[i + 3] - 128)
           IN IF cp < 65536 \/ cp > 1114111
              THEN <<65533>> \o Utf8DecodeFrom(b, i + 1)
              ELSE <<55296 + ((cp - 65536) \div 1024),
                     56320 + ((cp - 65536) % 1024)>>
                   \o Utf8DecodeFrom(b, i + 4)
      ELSE <<65533>> \o Utf8DecodeFrom(b, i + 1)

Utf8Decode(b) == Utf8DecodeFrom(b, 1)

\* ------------------------------------------------------------------- keys
\* b^e in Z_23^*.
RECURSIVE ModExp(_, _)
ModExp(b, e) == IF e = 0 THEN 1 ELSE (b * ModExp(b, e - 1)) % 23

\* A key object.  An x25519 private key is a scalar k, its public key the
\* group element 2^k (2 generates the subgroup of prime order 11).
PrivateKey(curve, k) == [kind |-> "private", curve |-> curve, v |-> k]
PublicKeyOf(priv) == [kind |-> "public", curve |-> priv.curve, v |-> ModExp(2, priv.v)]

NoKey == [kind |-> "none", curve |-> "none", v |-> 0]

\* The private keys a caller can hold: one per party on x25519 and, as a key
\* of a type key agreement does not take, one on ed25519.
PrivateKeys == {PrivateKey("x25519", k) : k \in 1..NumParties} \cup {PrivateKey("ed25519", 1)}
PublicKeys == {PublicKeyOf(p) : p \in PrivateKeys}

\* crypto.diffieHellman throws unless it is given a private and a public key
\* of the same type, and of a type that has a key agreement.
DhAccepts(privateKey, publicKey) ==
    /\ privateKey.kind = "private"
    /\ publicKey.kind = "public"
    /\ privateKey.curve = publicKey.curve
    /\ privateKey.curve = "x25519"

\* crypto.diffieHellman({publicKey, privateKey}): the 32-byte shared secret.
diffieHellman(privateKey, publicKey) ==
    [i \in 1..32 |-> IF i = 1 THEN ModExp(publicKey.v, privateKey.v) ELSE 0]

\* ---------------------------------------------------------- key derivation
\* A derivation that leaves the salt, or the shared secret, out of the hash.
KdfNoSalt(sharedSecret, salt) == [sha256 |-> sharedSecret]
KdfNoSecret(sharedSecret, salt) == [sha256 |-> salt]

\* crypto.createHash('sha256').update(Buffer.concat([sharedSecret, salt])).digest()
Kdf(sharedSecret, salt) == [sha256 |-> Concat(sharedSecret, salt)]

NoDigest == [sha256 |-> <<>>]

\* ------------------------------------------------------------ AES-256-GCM
\* Byte i of the keystream whose (key, iv) has the given seed.
KeyStream(seed, i) == (seed + 7 * i) % 256

\* cipher.update(..) ++ cipher.final(), and decipher.update(..): XOR with
\* the keystream of (key, iv).
GcmCrypt(key, iv, bytes) ==
    LET seed == (SumSeq(key.sha256) + 3 * SumSeq(iv)) % 256
    IN [i \in 1..Len(bytes) |-> Xor(bytes[i], KeyStream(seed, i))]

\* cipher.getAuthTag(): the 16-byte tag of (key, iv, ciphertext).
GcmTag(key, iv, ciphertext) ==
    LET seed == (SumSeq(key.sha256) + 5 * SumSeq(iv) + 11 * SumSeq(ciphertext)
                 + Len(ciphertext)) % 256
    IN [j \in 1..16 |-> (seed + 13 * j) % 256]

\* decipher.setAuthTag(tag) throws unless the tag has a length GCM permits.
GcmTagLengths == {4, 8, 12, 13, 14, 15, 16}

\* The final() of a cipher mode without authentication.
CtrFinal(key, iv, tag, ciphertext, log) == TRUE

\* decipher.final() succeeds: some cipher operation produced this ciphertext
\* under this key and iv, and the tag is the produced tag, cut to its length.
GcmFinal(key, iv, tag, ciphertext, log) ==
    /\ \E n \in 1..Len(log) :
          /\ log[n].key = key
          /\ log[n].iv = iv
          /\ log[n].ciphertext = ciphertext
    /\ tag = Slice(GcmTag(key, iv, ciphertext), 0, Len(tag))

\* A framing with the tag after the ciphertext.
AesFrameTagLast(iv, tag, encrypted) == Concat(iv, Concat(encrypted, tag))

\* Buffer.concat([iv, tag, encrypted]) of aesEncrypt
AesFrame(iv, tag, encrypted) == Concat(iv, Concat(tag, encrypted))

\* aesEncrypt(key, plaintext), once randomBytes(12) has returned iv.
aesEncrypt(key, plaintext, iv) ==
    LET encrypted == GcmCrypt(key, iv, Utf8Encode(plaintext))
        tag == GcmTag(key, iv, encrypted)
    IN AesFrame(iv, tag, encrypted)

\* The outcome of a call: a value or an error, and the steps that ran.
Returned(value, steps) == [ok |-> TRUE, value |-> value, err |-> "", steps |-> steps]
Thrown(err, steps) == [ok |-> FALSE, value |-> <<>>, err |-> err, steps |-> steps]

\* message.slice(0, 12), message.slice(12, 28), message.slice(28) of aesDecrypt
AesIv(message) == Slice(message, 0, 12)
AesTag(message) == Slice(message, 12, 28)
AesCiphertext(message) == SliceFrom(message, 28)

\* aesDecrypt(key, message); steps are the steps of the caller so far.
aesDecrypt(key, message, log, steps) ==
    LET iv == AesIv(message)
        tag == AesTag(message)
        ciphertext == AesCiphertext(message)
        parsed == Append(steps, "ParseFields")
        ran == Append(parsed, "AuthenticatedDecrypt")
    IN IF Len(iv) = 0 THEN Thrown("InvalidIV", ran)
       ELSE IF Len(tag) \notin GcmTagLengths THEN Thrown("InvalidAuthTag", ran)
       ELSE IF ~GcmFinal(key, iv, tag, ciphertext, log)
       THEN Thrown("AuthenticationFailed", ran)
       ELSE Returned(Utf8Decode(GcmCrypt(key, iv, ciphertext)), ran)

\* A salt sliced too short.
BobSaltShort(encryptedMessage) == Slice(encryptedMessage, 0, 12)

\* encryptedMessage.slice(0, 16) of BobDecrypt
BobSalt(encryptedMessage) == Slice(encryptedMessage, 0, 16)

\* A BobDecrypt that checks the length and parses before key agreement.
BobDecryptParseFirst(bobPrivateKey, alicePublicKey, encryptedMessage, log) ==
    IF Len(encryptedMessage) < 44
    THEN Thrown("MalformedMessage", <<"ParseSalt", "ParseFields">>)
    ELSE IF ~DhAccepts(bobPrivateKey, alicePublicKey)
    THEN Thrown("InvalidKey", <<"ParseSalt", "ParseFields", "KeyAgreement">>)
    ELSE aesDecrypt(Kdf(diffieHellman(bobPrivateKey, alicePublicKey),
                        BobSalt(encryptedMessage)),
                    SliceFrom(encryptedMessage, 16), log,
                    <<"ParseSalt", "ParseFields", "KeyAgreement", "KeyDerivation">>)

\* BobDecrypt(bobPrivateKey, alicePublicKey, encryptedMessage): the outcome,
\* with the steps in the order they ran.
BobDecrypt(bobPrivateKey, alicePublicKey, encryptedMessage, log) ==
    IF ~DhAccepts(bobPrivateKey, alicePublicKey)
    THEN Thrown("InvalidKey", <<"KeyAgreement">>)
    ELSE LET sharedSecret == diffieHellman(bobPrivateKey, alicePublicKey)
             salt == BobSalt(encryptedMessage)
             symmetricKey == Kdf(sharedSecret, salt)
         IN aesDecrypt(symmetricKey, SliceFrom(encryptedMessage, 16), log,
                       <<"KeyAgreement", "ParseSalt", "KeyDerivation">>)

\* --------------------------------------------------------------- randomness
\* The s-th value of the given size the random source can return.
RandomValue(size, s) == [i \in 1..size |-> (16 * s + i) % 256]

\* A source that returns zero bytes every time.
randomBytesZero(size, used) == {[i \in 1..size |-> 0]}

\* randomBytes(size): the values it can return when it has returned `used`.
randomBytes(size, used) ==
    {RandomValue(size, s) : s \in 1..(IF size = 16 THEN NumSalts ELSE NumIvs)} \ used

\* ----------------------------------------------------------------- messages
\* The ASCII strings 'H', 'HH', ... of at most n code units.
RECURSIVE Strings(_)
Strings(n) == IF n = 0 THEN {<<>>} ELSE Strings(n - 1) \cup {[i \in 1..n |-> 72]}

\* 'Hello world' of the demo.
HelloWorld == <<72, 101, 108, 108, 111, 32, 119, 111, 114, 108, 100>>

\* The messages of the exchange: the short ASCII strings, the demo's message,
\* a 2-byte and a 3-byte character, a surrogate pair (U+1F600), and strings
\* with an unpaired high or low surrogate.
Messages ==
    Strings(MaxMsgLen) \cup
        {HelloWorld, <<233>>, <<8364>>, <<55357, 56832>>,
         <<55357>>, <<56832>>, <<72, 55357>>, <<55357, 72>>}

\* -------------------------------------------------------------------- state
VARIABLES
    calls,       \* the AliceEncrypt calls: position and local variables of each
    drawn,       \* the values randomBytes has returned
    cipherLog,   \* the cipher operations performed: <<key, iv, ciphertext>> each
    dec          \* the last BobDecrypt call: its arguments and its outcome

vars == <<calls, drawn, cipherLog, dec>>

Calls == 1..NumCalls

IdleCall ==
    [pc |-> "idle", alicePrivateKey |-> NoKey, bobPublicKey |-> NoKey,
     message |-> <<>>, sharedSecret |-> <<>>, salt |-> <<>>,
     symmetricKey |-> NoDigest, iv |-> <<>>, encryptedMessage |-> <<>>,
     result |-> <<>>, err |-> ""]

NoDec ==
    [called |-> FALSE, bobPrivateKey |-> NoKey, alicePublicKey |-> NoKey,
     encryptedMessage |-> <<>>, outcome |-> Thrown("", <<>>)]

Init ==
    /\ calls = [c \in Calls |-> IdleCall]
    /\ drawn = {}
    /\ cipherLog = <<>>
    /\ dec = NoDec

\* ------------------------------------------------------------- AliceEncrypt
\* The call is made: key agreement runs, then the call awaits randomBytes(16).
AliceEncryptCall(c, alicePrivateKey, bobPublicKey, message) ==
    /\ calls[c].pc = "idle"
    /\ calls' = [calls EXCEPT ![c] =
          IF DhAccepts(alicePrivateKey, bobPublicKey)
          THEN [@ EXCEPT !.pc = "awaitSalt",
                         !.alicePrivateKey = alicePrivateKey,
                         !.bobPublicKey = bobPublicKey,
                         !.message = message,
                         !.sharedSecret = diffieHellman(alicePrivateKey, bobPublicKey)]
          ELSE [@ EXCEPT !.pc = "rejected",
                         !.alicePrivateKey = alicePrivateKey,
                         !.bobPublicKey = bobPublicKey,
                         !.message = message,
                         !.err = "InvalidKey"]]
    /\ UNCHANGED <<drawn, cipherLog, dec>>

\* randomBytes(16) returns: the key is derived and aesEncrypt is entered, which
\* awaits randomBytes(12).
AliceEncryptSalt(c) ==
    /\ calls[c].pc = "awaitSalt"
    /\ \E salt \in randomBytes(16, drawn) :
          /\ calls' = [calls EXCEPT ![c] =
                [@ EXCEPT !.pc = "awaitIv",
                          !.salt = salt,
                          !.symmetricKey = Kdf(calls[c].sharedSecret, salt)]]
          /\ drawn' = drawn \cup {salt}
    /\ UNCHANGED <<cipherLog, dec>>

\* randomBytes(12) returns: aesEncrypt enciphers and returns; AliceEncrypt
\* awaits its promise.
AliceEncryptIv(c) ==
    /\ calls[c].pc = "awaitIv"
    /\ \E iv \in randomBytes(12, drawn) :
          LET encryptedMessage == aesEncrypt(calls[c].symmetricKey, calls[c].message, iv)
          IN /\ calls' = [calls EXCEPT ![c] =
                   [@ EXCEPT !.pc = "awaitAes",
                             !.iv = iv,
                             !.encryptedMessage = encryptedMessage]]
             /\ drawn' = drawn \cup {iv}
             /\ cipherLog' = Append(cipherLog,
                   [call |-> c, key |-> calls[c].symmetricKey, iv |-> iv,
                    ciphertext |-> GcmCrypt(calls[c].symmetricKey, iv,
                                            Utf8Encode(calls[c].message))])
    /\ UNCHANGED dec

\* A framing with a salt shared by the calls: the one drawn by the call with
\* the highest number so far.
AliceFrameLastSalt(self, cs) ==
    LET salted == {c \in DOMAIN cs : cs[c].salt # <<>>}
        last == CHOOSE c \in salted : \A d \in salted : d <= c
    IN Concat(cs[last].salt, cs[self].encryptedMessage)

\* Buffer.concat([salt, encryptedMessage]) of AliceEncrypt, by call `self`.
AliceFrame(self, cs) == Concat(cs[self].salt, cs[self].encryptedMessage)

\* The promise of aesEncrypt resolves: AliceEncrypt returns the wire message.
AliceEncryptReturn(c) ==
    /\ calls[c].pc = "awaitAes"
    /\ calls' = [calls EXCEPT ![c] =
          [@ EXCEPT !.pc = "resolved", !.result = AliceFrame(c, calls)]]
    /\ UNCHANGED <<drawn, cipherLog, dec>>

\* --------------------------------------------------------------- BobDecrypt
\* The wire messages of the resolved calls.
Delivered == {calls[c].result : c \in {d \in Calls : calls[d].pc = "resolved"}}

\* The keys that decrypt the wire message of call c: the recipient's private
\* key and the sender's public key.
RecipientKey(c) ==
    CHOOSE b \in PrivateKeys : PublicKeyOf(b) = calls[c].bobPublicKey
SenderKey(c) == PublicKeyOf(calls[c].alicePrivateKey)

\* What a wire message can have become on its way: itself, itself with one
\* bit inverted, or a proper prefix of it.
InTransit(m) ==
    {m} \cup {FlipBit(m, k) : k \in 0..(8 * Len(m) - 1)}
        \cup {Slice(m, 0, n) : n \in 0..(Len(m) - 1)}

\* Bob decrypts once, as in the demo.
BobDecryptCall(bobPrivateKey, alicePublicKey, encryptedMessage) ==
    /\ ~dec.called
    /\ dec' = [called |-> TRUE, bobPrivateKey |-> bobPrivateKey,
               alicePublicKey |-> alicePublicKey,
               encryptedMessage |-> encryptedMessage,
               outcome |-> BobDecrypt(bobPrivateKey, alicePublicKey,
                                      encryptedMessage, cipherLog)]
    /\ UNCHANGED <<calls, drawn, cipherLog>>

\* ----------------------------------------------------------- specifications
\* One exchange, as in the demo: Alice encrypts once and Bob decrypts once.
\* Bob is handed either a wire message as sent, or nothing at all, and uses
\* any keys; or a wire message changed in transit, and uses the right keys.
Next ==
    \/ \E a \in PrivateKeys, b \in PublicKeys, m \in Messages : AliceEncryptCall(1, a, b, m)
    \/ AliceEncryptSalt(1)
    \/ AliceEncryptIv(1)
    \/ AliceEncryptReturn(1)
    \/ /\ ~dec.called
       /\ \E b \in PrivateKeys, a \in PublicKeys, m \in {<<>>} \cup Delivered :
             BobDecryptCall(b, a, m)
    \/ /\ ~dec.called
       /\ calls[1].pc = "resolved"
       /\ \E m \in InTransit(calls[1].result) :
             BobDecryptCall(RecipientKey(1), SenderKey(1), m)

Spec == Init /\ [][Next]_vars

\* Several AliceEncrypt calls in flight at once, interleaving at their awaits.
\* Each is from party 1 or from party 3 to party 2, with a well-formed message
\* or an unpaired surrogate.
ConcurrentPairs == {<<1, 2>>, <<3, 2>>}
ConcurrentMessages == {<<72>>, <<55357>>}

NextConcurrent ==
    \E c \in Calls :
        \/ \E p \in ConcurrentPairs, m \in ConcurrentMessages :
              AliceEncryptCall(c, PrivateKey("x25519", p[1]),
                               PublicKeyOf(PrivateKey("x25519", p[2])), m)
        \/ AliceEncryptSalt(c)
        \/ AliceEncryptIv(c)
        \/ AliceEncryptReturn(c)

SpecConcurrent == Init /\ [][NextConcurrent]_vars

\* ------------------------------------------------------------------- claims
Resolved(c) == calls[c].pc = "resolved"

\* A string without unpaired surrogates.
RECURSIVE WellFormedFrom(_, _)
WellFormedFrom(s, i) ==
    IF i > Len(s) THEN TRUE
    ELSE IF IsHighSurrogate(s[i]) /\ i < Len(s) /\ IsLowSurrogate(s[i + 1])
    THEN WellFormedFrom(s, i + 2)
    ELSE ~IsSurrogate(s[i]) /\ WellFormedFrom(s, i + 1)

WellFormed(s) == WellFormedFrom(s, 1)

\* The string with every unpaired surrogate replaced by U+FFFD.
RECURSIVE ReplaceLoneFrom(_, _)
ReplaceLoneFrom(s, i) ==
    IF i > Len(s) THEN <<>>
    ELSE IF IsHighSurrogate(s[i]) /\ i < Len(s) /\ IsLowSurrogate(s[i + 1])
    THEN <<s[i], s[i + 1]>> \o ReplaceLoneFrom(s, i + 2)
    ELSE IF IsSurrogate(s[i]) THEN <<65533>> \o ReplaceLoneFrom(s, i + 1)
    ELSE <<s[i]>> \o ReplaceLoneFrom(s, i + 1)

ReplaceLone(s) == ReplaceLoneFrom(s, 1)

\* Bob decrypted, after call 1 resolved, with the recipient's private key and
\* the sender's public key.
DecryptedWithRightKeys ==
    /\ dec.called
    /\ Resolved(1)
    /\ dec.bobPrivateKey = RecipientKey(1)
    /\ dec.alicePublicKey = SenderKey(1)

\* Bob decrypted the wire message of call 1 as it was sent.
DecryptedAsSent == dec.called /\ Resolved(1) /\ dec.encryptedMessage = calls[1].result

\* The bytes in which m differs from the message it was made from.
Changed(m, original) == {i \in 1..Len(original) : m[i] # original[i]}

\* m is original with exactly one bit inverted, in a byte from..to.
FlippedIn(m, original, from, to) ==
    /\ Len(m) = Len(original)
    /\ LET changed == Changed(m, original)
       IN /\ Cardinality(changed) = 1
          /\ \A i \in changed :
                /\ i \in from..to
                /\ Xor(m[i], original[i]) \in {1, 2, 4, 8, 16, 32, 64, 128}

\* C1 as stated: decrypting the wire message of Encrypt(A.priv, B.pub, P) with
\* (B.priv, A.pub) returns exactly P, for every plaintext P.
C1_RoundTripExact ==
    (DecryptedWithRightKeys /\ DecryptedAsSent)
        => (dec.outcome.ok /\ dec.outcome.value = calls[1].message)

\* C1 as amended: decrypting the wire message of Encrypt(A.priv, B.pub, P) with
\* (B.priv, A.pub) succeeds and returns P with every unpaired surrogate
\* replaced by U+FFFD, which is exactly P when P has no unpaired surrogate,
\* whatever salt and nonce the encryption drew.
C1_RoundTrip ==
    (DecryptedWithRightKeys /\ DecryptedAsSent)
        => /\ dec.outcome.ok
           /\ dec.outcome.value = ReplaceLone(calls[1].message)
           /\ WellFormed(calls[1].message) => dec.outcome.value = calls[1].message

C1_Witness ==
    /\ DecryptedWithRightKeys
    /\ DecryptedAsSent
    /\ calls[1].message = <<55357, 56832>>
    /\ calls[1].alicePrivateKey # dec.bobPrivateKey
    /\ dec.outcome.ok
    /\ dec.outcome.value = <<55357, 56832>>

\* C2: with the right keys, a wire message with one bit inverted in its Nonce
\* (bytes 16..28), AuthTag (bytes 28..44) or Ciphertext (bytes 44..end) makes
\* Decrypt fail with AuthenticationFailed; no plaintext is returned.
C2_TamperDetected ==
    (DecryptedWithRightKeys
       /\ FlippedIn(dec.encryptedMessage, calls[1].result, 17, Len(calls[1].result)))
        => /\ ~dec.outcome.ok
           /\ dec.outcome.err = "AuthenticationFailed"
           /\ dec.outcome.value = <<>>

C2_Witness ==
    /\ DecryptedWithRightKeys
    /\ Len(calls[1].result) = 46
    /\ FlippedIn(dec.encryptedMessage, calls[1].result, 46, 46)
    /\ dec.outcome.err = "AuthenticationFailed"

\* C3 as stated: Decrypt of a wire message shorter than 44 bytes fails with
\* MalformedMessage, for any keys, and returns no plaintext.
C3_MalformedRejected ==
    (dec.called /\ Len(dec.encryptedMessage) < 44)
        => (~dec.outcome.ok /\ dec.outcome.err = "MalformedMessage")

\* C4: the wire message is Salt(16) ++ Nonce(12) ++ AuthTag(16) ++ Ciphertext
\* with the ciphertext as long as the plaintext's bytes, so 44 + length(P)
\* bytes in all (55 for 'Hello world'), and Decrypt slices the same salt,
\* nonce, tag and ciphertext back out of it.
C4_WireFormat ==
    Resolved(1) =>
        LET c == calls[1]
            ciphertext == cipherLog[1].ciphertext
            tag == GcmTag(c.symmetricKey, c.iv, ciphertext)
            rest == SliceFrom(c.result, 16)
        IN /\ Len(c.salt) = 16 /\ Len(c.iv) = 12 /\ Len(tag) = 16
           /\ Len(ciphertext) = Len(Utf8Encode(c.message))
           /\ c.result = c.salt \o c.iv \o tag \o ciphertext
           /\ Len(c.result) = 44 + Len(Utf8Encode(c.message))
           /\ c.message = HelloWorld => Len(c.result) = 55
           /\ c.message = <<>> => Len(c.result) = 44
           /\ BobSalt(c.result) = c.salt
           /\ AesIv(rest) = c.iv
           /\ AesTag(rest) = tag
           /\ AesCiphertext(rest) = ciphertext

C4_Witness ==
    /\ Resolved(1)
    /\ calls[1].message = HelloWorld
    /\ Len(calls[1].result) = 55
    /\ SubSeq(calls[1].result, 1, 16) = calls[1].salt
    /\ SubSeq(calls[1].result, 17, 28) = calls[1].iv

\* C5: the wire message of Encrypt(A.priv, B.pub, P), decrypted with A.pub and
\* the private key of a third party C (neither A nor B), fails with
\* AuthenticationFailed and returns no plaintext.
C5_WrongKeyRejected ==
    (/\ DecryptedAsSent
     /\ dec.alicePublicKey = SenderKey(1)
     /\ dec.bobPrivateKey.curve = "x25519"
     /\ dec.bobPrivateKey # RecipientKey(1)
     /\ dec.bobPrivateKey # calls[1].alicePrivateKey)
        => /\ ~dec.outcome.ok
           /\ dec.outcome.err = "AuthenticationFailed"
           /\ dec.outcome.value = <<>>

C5_Witness ==
    /\ DecryptedAsSent
    /\ calls[1].alicePrivateKey = PrivateKey("x25519", 1)
    /\ calls[1].bobPublicKey = PublicKeyOf(PrivateKey("x25519", 2))
    /\ dec.alicePublicKey = SenderKey(1)
    /\ dec.bobPrivateKey = PrivateKey("x25519", 3)
    /\ dec.outcome.err = "AuthenticationFailed"

\* C6: two Encrypt calls with the same sender private key, recipient public
\* key and plaintext yield different wire messages, which differ in the Salt
\* field and in the Nonce field, and both decrypt to the same plaintext.
C6_NonDeterministic ==
    \A c \in Calls, d \in Calls :
        (/\ c # d
         /\ Resolved(c) /\ Resolved(d)
         /\ calls[c].alicePrivateKey = calls[d].alicePrivateKey
         /\ calls[c].bobPublicKey = calls[d].bobPublicKey
         /\ calls[c].message = calls[d].message)
            => LET pc == BobDecrypt(RecipientKey(c), SenderKey(c), calls[c].result, cipherLog)
                   pd == BobDecrypt(RecipientKey(d), SenderKey(d), calls[d].result, cipherLog)
               IN /\ calls[c].result # calls[d].result
                  /\ Slice(calls[c].result, 0, 16) # Slice(calls[d].result, 0, 16)
                  /\ Slice(calls[c].result, 16, 28) # Slice(calls[d].result, 16, 28)
                  /\ pc.ok /\ pd.ok
                  /\ pc.value = pd.value

C6_Witness ==
    /\ Resolved(1) /\ Resolved(2)
    /\ calls[1].alicePrivateKey = calls[2].alicePrivateKey
    /\ calls[1].bobPublicKey = calls[2].bobPublicKey
    /\ calls[1].message = <<72>>
    /\ calls[2].message = <<72>>
    /\ calls[1].result # calls[2].result

\* C7: no two cipher operations were performed with the same
\* (SymmetricKey, Nonce) pair.
C7_NonceUnique ==
    \A i \in 1..Len(cipherLog), j \in 1..Len(cipherLog) :
        i # j => ~(cipherLog[i].key = cipherLog[j].key /\ cipherLog[i].iv = cipherLog[j].iv)

C7_Witness ==
    /\ Len(cipherLog) >= 2
    /\ calls[1].sharedSecret = calls[2].sharedSecret
    /\ cipherLog[1].key # cipherLog[2].key
    /\ cipherLog[1].iv # cipherLog[2].iv

\* The wire message a call must return, from that call's own keys, message,
\* salt and nonce.
OwnWireMessage(c) ==
    LET sharedSecret == diffieHellman(calls[c].alicePrivateKey, calls[c].bobPublicKey)
        symmetricKey == [sha256 |-> sharedSecret \o calls[c].salt]
        encrypted == GcmCrypt(symmetricKey, calls[c].iv, Utf8Encode(calls[c].message))
    IN calls[c].salt \o calls[c].iv
         \o GcmTag(symmetricKey, calls[c].iv, encrypted) \o encrypted

DecryptsTo(c, plaintext) ==
    LET p == BobDecrypt(RecipientKey(c), SenderKey(c), calls[c].result, cipherLog)
    IN p.ok /\ p.value = plaintext

\* C8 as stated: in every interleaving each call's wire message is built only
\* from its own shared secret, salt, key, nonce and plaintext, and decrypts
\* with the right keys to its own call's plaintext.
C8_OwnPlaintextExact ==
    \A c \in Calls :
        Resolved(c) => (calls[c].result = OwnWireMessage(c) /\ DecryptsTo(c, calls[c].message))

\* C8 as amended: in every interleaving each call's wire message is built only
\* from its own shared secret, salt, key, nonce and plaintext, a step of one
\* call leaves the local variables of every other call as they were, and every
\* wire message decrypts with the right keys to its own call's plaintext with
\* every unpaired surrogate replaced by U+FFFD (the plaintext itself when it
\* has none).
C8_Independent ==
    /\ [](\A c \in Calls :
            Resolved(c) =>
                /\ calls[c].result = OwnWireMessage(c)
                /\ DecryptsTo(c, ReplaceLone(calls[c].message))
                /\ WellFormed(calls[c].message) => ReplaceLone(calls[c].message) = calls[c].message)
    /\ [][\E c \in Calls : \A d \in Calls \ {c} : calls'[d] = calls[d]]_vars

C8_Witness ==
    /\ Resolved(1) /\ Resolved(2)
    /\ calls[1].message = <<72>>
    /\ calls[2].message = <<55357>>
    /\ calls[1].sharedSecret # calls[2].sharedSecret
    /\ cipherLog[1].call = 2
    /\ calls[1].salt = RandomValue(16, 1)
    /\ DecryptsTo(1, <<72>>)
    /\ DecryptsTo(2, <<65533>>)

\* Step s ran, and before step t if t ran.
RanBefore(steps, s, t) ==
    \A j \in 1..Len(steps) : steps[j] = t => \E i \in 1..(j - 1) : steps[i] = s

C10_SaltProtected ==
    /\ (DecryptedWithRightKeys
          /\ FlippedIn(dec.encryptedMessage, calls[1].result, 1, 16))
        => /\ Kdf(diffieHellman(dec.bobPrivateKey, dec.alicePublicKey),
                  BobSalt(dec.encryptedMessage)) # calls[1].symmetricKey
           /\ dec.outcome.err = "AuthenticationFailed"
    /\ (DecryptedWithRightKeys
          /\ FlippedIn(dec.encryptedMessage, calls[1].result, 1, Len(calls[1].result)))
        => (~dec.outcome.ok /\ dec.outcome.value = <<>>)

C10_Witness ==
    /\ DecryptedWithRightKeys
    /\ calls[1].message = <<72>>
    /\ FlippedIn(dec.encryptedMessage, calls[1].result, 16, 16)
    /\ dec.outcome.err = "AuthenticationFailed"

=============================================================================
